---- MODULE Spec2Model ----
(***************************************************************************)
(* A model of fintec/data.py: path resolution against the environment      *)
(* variable U_FIN_DATA_BASE, the csv / Excel dispatch of _read_data, the    *)
(* date-indexed loader with nearest interpolation, and the Idx enumeration. *)
(*                                                                         *)
(* Strings are TLA+ strings; a character is a string of length one.        *)
(* Paths follow posixpath (separator "/").                                 *)
(***************************************************************************)
EXTENDS Integers, Sequences, FiniteSets, TLC

VARIABLES
    env,        \* value of the environment variable U_FIN_DATA_BASE, or Unset
    fs,         \* the file system: path -> file content, or NoFile
    last,       \* the latest call of _data_path or of an Idx method
    kept,       \* an earlier call of _data_path or of an Idx method
    outcome,    \* the latest load call: its arguments and how it ended
    heap,       \* the DataFrame objects returned so far: id -> table
    ncalls,     \* number of load calls made so far
    again       \* the result of interpolating a returned DataFrame once more

vars == <<env, fs, last, kept, outcome, heap, ncalls, again>>

---------------------------------------------------------------------------
(* Bounds of the model.                                                    *)

\* largest number of rows of a source table
MaxRows == 3
\* largest number of load calls in one behaviour
MaxLoads == 2

---------------------------------------------------------------------------
(* Python str and os.path helpers, computed as the library computes them.  *)

\* the environment variable is either unset or set to a string
Unset == [set |-> FALSE]
SetTo(s) == [set |-> TRUE, value |-> s]

None == [none |-> TRUE]

Char(s, i) == SubSeq(s, i, i)

LowerChar(c) ==
    CASE c = "A" -> "a" [] c = "B" -> "b" [] c = "C" -> "c" [] c = "D" -> "d"
      [] c = "E" -> "e" [] c = "F" -> "f" [] c = "G" -> "g" [] c = "H" -> "h"
      [] c = "I" -> "i" [] c = "J" -> "j" [] c = "K" -> "k" [] c = "L" -> "l"
      [] c = "M" -> "m" [] c = "N" -> "n" [] c = "O" -> "o" [] c = "P" -> "p"
      [] c = "Q" -> "q" [] c = "R" -> "r" [] c = "S" -> "s" [] c = "T" -> "t"
      [] c = "U" -> "u" [] c = "V" -> "v" [] c = "W" -> "w" [] c = "X" -> "x"
      [] c = "Y" -> "y" [] c = "Z" -> "z" [] OTHER -> c

RECURSIVE LowerFrom(_, _)
LowerFrom(s, i) ==
    IF i > Len(s) THEN "" ELSE LowerChar(Char(s, i)) \o LowerFrom(s, i + 1)

\* a plausible slip: the comparison is made without lower-casing
lower_missing(s) == s

\* str.lower()
lower(s) == LowerFrom(s, 1)

\* str.rfind(c) for a single character, 1-based; 0 when c does not occur
rfind(s, c) ==
    LET hits == {i \in 1..Len(s) : Char(s, i) = c}
    IN  IF hits = {} THEN 0 ELSE CHOOSE i \in hits : \A j \in hits : j <= i

startswith(s, c) == Len(s) >= 1 /\ Char(s, 1) = c
endswith(s, c) == Len(s) >= 1 /\ Char(s, Len(s)) = c

\* os.path.splitext (genericpath._splitext with sep "/" and extsep "."):
\* the extension starts at the last dot of the last path component, unless
\* that component consists of leading dots only up to that dot.
splitext(p) ==
    LET sepIndex == rfind(p, "/")
        dotIndex == rfind(p, ".")
        nondot == {k \in (sepIndex + 1)..(dotIndex - 1) : Char(p, k) # "."}
    IN  IF dotIndex > sepIndex /\ nondot # {}
        THEN <<SubSeq(p, 1, dotIndex - 1), SubSeq(p, dotIndex, Len(p))>>
        ELSE <<p, "">>

\* os.path.join(a, b) of posixpath
join(a, b) ==
    IF startswith(b, "/") THEN b
    ELSE IF a = "" \/ endswith(a, "/") THEN a \o b
    ELSE a \o "/" \o b

\* a plausible slip: the environment is not consulted, the default is used
getenv_ignored(e, default) == default

\* os.getenv(U_FIN_DATA_BASE, default), e being the variable's current state
getenv(e, default) == IF e.set THEN e.value ELSE default

\* _data_path(filename), evaluated with the environment in state e
data_path(e, filename) == join(getenv(e, "data"), filename)

---------------------------------------------------------------------------
(* The Idx enumeration.                                                    *)

Idx == {"DOW", "SPX", "NASDAQ100", "AEX", "DAX", "FTSE", "SHANGHAI"}

IdxValue(name) ==
    CASE name = "DOW" -> "us-30"
      [] name = "SPX" -> "us-spx-500"
      [] name = "NASDAQ100" -> "nq-100"
      [] name = "AEX" -> "netherlands-25"
      [] name = "DAX" -> "germany-30"
      [] name = "FTSE" -> "uk-100"
      [] name = "SHANGHAI" -> "shanghai-composite"

Idx_describe(name) == <<name, IdxValue(name)>>

\* a plausible slip: the local filename is not passed through _data_path
Idx_filename_unresolved(e, name) == "indices/" \o lower(name) \o ".csv"

\* Idx.filename(), evaluated with the environment in state e
Idx_filename(e, name) == data_path(e, "indices/" \o lower(name) \o ".csv")

Idx_ic_historical_data_url(name) ==
    "https://www.investing.com/indices/" \o IdxValue(name) \o "-historical-data"

\* a plausible slip: the manual-download filename is resolved against the data
\* base like the local filename
Idx_init_file_resolved(name) == data_path(env, "html/" \o lower(name) \o ".html")

Idx_init_file(name) == "html/" \o lower(name) \o ".html"

---------------------------------------------------------------------------
(* Tables, files and the pandas readers called by _read_data.              *)

\* cells of a table: a missing value, a number, a text, a timestamp (days
\* since 1970-01-01)
NaN == [nan |-> TRUE]
Num(v) == [num |-> v]
Text(s) == [text |-> s]
Ts(d) == [ts |-> d]

\* results of a step: a value, or a raised exception
Ok(v) == [ok |-> TRUE, value |-> v]
Raise(e) == [ok |-> FALSE, error |-> e]

\* sheet selectors: by name or by 0-based position
SheetName(s) == [name |-> s]
SheetPos(k) == [pos |-> k]

\* the content of the file at path, NoFile when there is none
NoFile == [kind |-> "nofile"]
Lookup(fsv, path) == IF path \in DOMAIN fsv THEN fsv[path] ELSE NoFile

Without(seq, k) == [j \in 1..(Len(seq) - 1) |-> IF j < k THEN seq[j] ELSE seq[j + 1]]

\* the DataFrame of a parsed table t, column index_col (0-based) being the index
set_index(t, index_col) ==
    IF index_col \notin 0..(Len(t.header) - 1)
    THEN Raise("IndexError")
    ELSE Ok([index |-> [i \in 1..Len(t.rows) |-> t.rows[i][index_col + 1]],
             columns |-> Without(t.header, index_col + 1),
             data |-> [i \in 1..Len(t.rows) |-> Without(t.rows[i], index_col + 1)]])

\* pd.read_csv(path, index_col=index_col)
read_csv(fsv, path, index_col) ==
    LET f == Lookup(fsv, path)
    IN  IF f = NoFile THEN Raise("FileNotFoundError")
        ELSE IF f.kind # "csv" THEN Raise("ParserError")
        ELSE set_index(f.table, index_col)

\* pd.read_excel(path, sheet_name=sheet_name, index_col=index_col)
read_excel(fsv, path, sheet_name, index_col) ==
    LET f == Lookup(fsv, path)
    IN  IF f = NoFile THEN Raise("FileNotFoundError")
        ELSE IF f.kind # "xlsx" THEN Raise("ValueError")
        ELSE LET hits == IF "name" \in DOMAIN sheet_name
                         THEN {k \in 1..Len(f.sheets) : f.sheets[k].name = sheet_name.name}
                         ELSE {k \in 1..Len(f.sheets) : k = sheet_name.pos + 1}
             IN  IF hits = {} THEN Raise("ValueError")
                 ELSE set_index(f.sheets[CHOOSE k \in hits : \A j \in hits : k <= j].table,
                                index_col)

\* the marker of an argument that is not passed to a reader
NotPassed == [passed |-> FALSE]

\* _read_data(filename, index_col, sheet_name): the reader call made and
\* what it returned or raised
read_data(fsv, e, filename, index_col, sheet_name) ==
    IF lower(splitext(filename)[2]) = ".csv"
    THEN [call |-> [reader |-> "read_csv", path |-> data_path(e, filename),
                    index_col |-> index_col, sheet_name |-> NotPassed],
          res |-> read_csv(fsv, data_path(e, filename), index_col)]
    ELSE [call |-> [reader |-> "read_excel", path |-> data_path(e, filename),
                    index_col |-> index_col, sheet_name |-> sheet_name],
          res |-> read_excel(fsv, data_path(e, filename), sheet_name, index_col)]

---------------------------------------------------------------------------
(* pd.to_datetime on the index: texts of the form YYYY-MM-DD become         *)
(* timestamps, anything else raises.                                       *)

Digit(c) ==
    CASE c = "0" -> 0 [] c = "1" -> 1 [] c = "2" -> 2 [] c = "3" -> 3
      [] c = "4" -> 4 [] c = "5" -> 5 [] c = "6" -> 6 [] c = "7" -> 7
      [] c = "8" -> 8 [] c = "9" -> 9 [] OTHER -> -1

RECURSIVE Number(_, _, _)
Number(s, i, j) == IF j < i THEN 0 ELSE 10 * Number(s, i, j - 1) + Digit(Char(s, j))

IsLeap(y) == (y % 4 = 0 /\ y % 100 # 0) \/ y % 400 = 0

DaysInMonth(y, m) ==
    IF m = 2 THEN (IF IsLeap(y) THEN 29 ELSE 28)
    ELSE IF m \in {4, 6, 9, 11} THEN 30 ELSE 31

RECURSIVE DaysBeforeMonth(_, _)
DaysBeforeMonth(y, m) ==
    IF m <= 1 THEN 0 ELSE DaysBeforeMonth(y, m - 1) + DaysInMonth(y, m - 1)

LeapsThrough(y) == (y \div 4) - (y \div 100) + (y \div 400)

\* days since 1970-01-01
EpochDay(y, m, d) ==
    365 * (y - 1970) + (LeapsThrough(y - 1) - LeapsThrough(1969))
        + DaysBeforeMonth(y, m) + (d - 1)

IsIsoDate(s) ==
    /\ Len(s) = 10
    /\ Char(s, 5) = "-" /\ Char(s, 8) = "-"
    /\ \A i \in {1, 2, 3, 4, 6, 7, 9, 10} : Digit(Char(s, i)) >= 0
    /\ Number(s, 6, 7) \in 1..12
    /\ Number(s, 9, 10) \in 1..DaysInMonth(Number(s, 1, 4), Number(s, 6, 7))

ParseDate(s) == EpochDay(Number(s, 1, 4), Number(s, 6, 7), Number(s, 9, 10))

to_datetime(index) ==
    IF \A i \in 1..Len(index) : "text" \in DOMAIN index[i] /\ IsIsoDate(index[i].text)
    THEN Ok([i \in 1..Len(index) |-> Ts(ParseDate(index[i].text))])
    ELSE Raise("ValueError")

---------------------------------------------------------------------------
(* DataFrame.interpolate(method='nearest', axis=0).                        *)
(*                                                                         *)
(* pandas interpolates each column on the values of the index (not on row  *)
(* positions) with scipy's interp1d(kind='nearest', bounds_error=False),    *)
(* and afterwards restores the NaNs before the first valid row: with the   *)
(* defaults limit=None, limit_direction='forward', limit_area=None these   *)
(* are the only positions pandas itself preserves.  A NaN stays elsewhere  *)
(* only where interp1d is asked for a point outside the range of the valid *)
(* index values.                                                           *)

\* the k-th smallest element of a set of integers
Nth(S, k) == CHOOSE i \in S : Cardinality({j \in S : j < i}) = k - 1

\* scipy.interpolate.interp1d(xv, yv, kind='nearest', bounds_error=False)
\* evaluated at xn: the points are sorted by x (stable), the breakpoints are
\* the midpoints of neighbouring x, and searchsorted(side='left') picks the
\* lower neighbour at an exact midpoint
interp1d_nearest(xv, yv, xn) ==
    LET m == Len(xv)
        rank(i) == 1 + Cardinality({j \in 1..m : xv[j] < xv[i] \/ (xv[j] = xv[i] /\ j < i)})
        at(k) == CHOOSE i \in 1..m : rank(i) = k
        below == {k \in 1..(m - 1) : xv[at(k)] + xv[at(k + 1)] < 2 * xn}
    IN  IF xn < xv[at(1)] \/ xn > xv[at(m)]
        THEN NaN
        ELSE yv[at(Cardinality(below) + 1)]

\* a plausible slip: interpolate(..., limit=1), which fills only a NaN that
\* directly follows a valid row
interpolate_1d_limit1(x, y) ==
    LET n == Len(y)
        valid == {i \in 1..n : y[i] # NaN}
        m == Cardinality(valid)
        xv == [k \in 1..m |-> x[Nth(valid, k)]]
        yv == [k \in 1..m |-> y[Nth(valid, k)]]
    IN  IF valid = {} \/ valid = 1..n
        THEN y
        ELSE [i \in 1..n |->
                IF i \in valid THEN y[i]
                ELSE IF (i - 1) \notin valid THEN NaN
                ELSE interp1d_nearest(xv, yv, x[i])]

\* a plausible slip: the interpolated values are written to every row, not
\* only to the rows that were NaN
interpolate_1d_unmasked(x, y) ==
    LET n == Len(y)
        valid == {i \in 1..n : y[i] # NaN}
        m == Cardinality(valid)
        xv == [k \in 1..m |-> x[Nth(valid, k)]]
        yv == [k \in 1..m |-> y[Nth(valid, k)]]
    IN  IF valid = {} \/ valid = 1..n
        THEN y
        ELSE [i \in 1..n |->
                IF i < Nth(valid, 1) THEN NaN ELSE interp1d_nearest(xv, yv, x[i])]

\* pandas.core.missing interpolate_1d for method 'nearest': x the index
\* values, y one column
interpolate_1d(x, y) ==
    LET n == Len(y)
        valid == {i \in 1..n : y[i] # NaN}
        invalid == (1..n) \ valid
    IN  IF valid = {} \/ invalid = {}
        THEN y
        ELSE LET m == Cardinality(valid)
                 first_valid == Nth(valid, 1)
                 preserve_nans == 1..(first_valid - 1)
                 xv == [k \in 1..m |-> x[Nth(valid, k)]]
                 yv == [k \in 1..m |-> y[Nth(valid, k)]]
             IN  [i \in 1..n |->
                    IF i \in valid THEN y[i]
                    ELSE IF i \in preserve_nans THEN NaN
                    ELSE interp1d_nearest(xv, yv, x[i])]

Column(df, j) == [i \in 1..Len(df.data) |-> df.data[i][j]]

\* df.interpolate(method='nearest', axis=0): every column on the index
interpolate(df) ==
    LET x == [i \in 1..Len(df.index) |-> df.index[i].ts]
        cols == [j \in 1..Len(df.columns) |-> interpolate_1d(x, Column(df, j))]
    IN  [df EXCEPT !.data = [i \in 1..Len(df.data) |->
                                [j \in 1..Len(df.columns) |-> cols[j][i]]]]

---------------------------------------------------------------------------
(* The loader.                                                             *)

\* a plausible slip: a failed read is caught and an empty DataFrame returned
read_date_indexed_data_catching(fsv, e, filename, index_col, sheet_name) ==
    LET r == read_data(fsv, e, filename, index_col, sheet_name)
    IN  [call |-> r.call, read |-> IF r.res.ok THEN "DataFrame" ELSE r.res.error,
         steps |-> <<"_read_data", "to_datetime", "interpolate">>,
         res |-> Ok([index |-> <<>>, columns |-> <<>>, data |-> <<>>])]

\* _read_date_indexed_data(filename, index_col, sheet_name): the reader call
\* made, what the read step returned or raised, the steps executed, and the
\* DataFrame returned or the exception raised
read_date_indexed_data(fsv, e, filename, index_col, sheet_name) ==
    LET r == read_data(fsv, e, filename, index_col, sheet_name)
    IN  IF ~r.res.ok
        THEN [call |-> r.call, read |-> r.res.error,
              steps |-> <<"_read_data">>, res |-> r.res]
        ELSE LET dt == to_datetime(r.res.value.index)
             IN  IF ~dt.ok
                 THEN [call |-> r.call, read |-> "DataFrame",
                       steps |-> <<"_read_data", "to_datetime">>, res |-> dt]
                 ELSE [call |-> r.call, read |-> "DataFrame",
                       steps |-> <<"_read_data", "to_datetime", "interpolate">>,
                       res |-> Ok(interpolate([r.res.value EXCEPT !.index = dt.value]))]

\* df_rates(filename, index_col, sheet_name)
df_rates(fsv, e, filename, index_col, sheet_name) ==
    read_date_indexed_data(fsv, e, filename, index_col, sheet_name)

---------------------------------------------------------------------------
(* Operations.                                                             *)

\* os.environ[U_FIN_DATA_BASE] = v, by the process or its caller
SetEnv(v) ==
    /\ env' = SetTo(v)
    /\ UNCHANGED <<fs, last, kept, outcome, heap, ncalls, again>>

\* del os.environ[U_FIN_DATA_BASE]
UnsetEnv ==
    /\ env' = Unset
    /\ UNCHANGED <<fs, last, kept, outcome, heap, ncalls, again>>

\* a file is written, or replaced, at path
WriteFile(path, content) ==
    /\ fs' = (path :> content) @@ fs
    /\ UNCHANGED <<env, last, kept, outcome, heap, ncalls, again>>

\* the file at path is removed
RemoveFile(path) ==
    /\ path \in DOMAIN fs
    /\ fs' = [q \in DOMAIN fs \ {path} |-> fs[q]]
    /\ UNCHANGED <<env, last, kept, outcome, heap, ncalls, again>>

\* a call _data_path(name)
DataPathCall(name) ==
    /\ last' = [op |-> "_data_path", arg |-> name, env |-> env,
                result |-> data_path(env, name)]
    /\ UNCHANGED <<env, fs, kept, outcome, heap, ncalls, again>>

\* a call Idx.<name>.describe()
IdxDescribeCall(name) ==
    /\ last' = [op |-> "describe", arg |-> name, env |-> env,
                result |-> Idx_describe(name)]
    /\ UNCHANGED <<env, fs, kept, outcome, heap, ncalls, again>>

\* a call Idx.<name>.filename()
IdxFilenameCall(name) ==
    /\ last' = [op |-> "filename", arg |-> name, env |-> env,
                result |-> Idx_filename(env, name)]
    /\ UNCHANGED <<env, fs, kept, outcome, heap, ncalls, again>>

\* a call Idx.<name>.ic_historical_data_url()
IdxUrlCall(name) ==
    /\ last' = [op |-> "ic_historical_data_url", arg |-> name, env |-> env,
                result |-> Idx_ic_historical_data_url(name)]
    /\ UNCHANGED <<env, fs, kept, outcome, heap, ncalls, again>>

\* a call Idx.<name>.init_file()
IdxInitFileCall(name) ==
    /\ last' = [op |-> "init_file", arg |-> name, env |-> env,
                result |-> Idx_init_file(name)]
    /\ UNCHANGED <<env, fs, kept, outcome, heap, ncalls, again>>

\* the caller keeps the result of the latest call to compare it with later ones
Keep ==
    /\ last # None
    /\ kept' = last
    /\ UNCHANGED <<env, fs, last, outcome, heap, ncalls, again>>

\* a plausible slip: the first DataFrame loaded is cached and handed out again
DfRatesCall_cached(filename, index_col, sheet_name) ==
    /\ ncalls < MaxLoads
    /\ ncalls' = ncalls + 1
    /\ \E r \in {df_rates(fs, env, filename, index_col, sheet_name)} :
           /\ heap' = IF r.res.ok /\ heap = <<>> THEN <<r.res.value>> ELSE heap
           /\ outcome' = [filename |-> filename, index_col |-> index_col,
                          sheet_name |-> sheet_name, env |-> env,
                          call |-> r.call, read |-> r.read, steps |-> r.steps,
                          status |-> IF r.res.ok THEN "ok" ELSE "error",
                          error |-> IF r.res.ok THEN "none" ELSE r.res.error,
                          ret |-> IF r.res.ok THEN 1 ELSE 0]
    /\ again' = None
    /\ UNCHANGED <<env, fs, last, kept>>

\* a call df_rates(filename, index_col, sheet_name): the returned DataFrame
\* is a new object, an exception leaves no object behind
DfRatesCall(filename, index_col, sheet_name) ==
    /\ ncalls < MaxLoads
    /\ ncalls' = ncalls + 1
    /\ \E r \in {df_rates(fs, env, filename, index_col, sheet_name)} :
           /\ heap' = IF r.res.ok THEN Append(heap, r.res.value) ELSE heap
           /\ outcome' = [filename |-> filename, index_col |-> index_col,
                          sheet_name |-> sheet_name, env |-> env,
                          call |-> r.call, read |-> r.read, steps |-> r.steps,
                          status |-> IF r.res.ok THEN "ok" ELSE "error",
                          error |-> IF r.res.ok THEN "none" ELSE r.res.error,
                          ret |-> IF r.res.ok THEN Len(heap) + 1 ELSE 0]
    /\ again' = None
    /\ UNCHANGED <<env, fs, last, kept>>

\* the caller interpolates the DataFrame it was returned once more
Reinterpolate ==
    /\ outcome # None
    /\ outcome.status = "ok"
    /\ again = None
    /\ again' = interpolate(heap[outcome.ret])
    /\ UNCHANGED <<env, fs, last, kept, outcome, heap, ncalls>>

---------------------------------------------------------------------------
(* Specification of path resolution and the Idx enumeration.               *)

EnvValues == {"db", "/srv/fin/", ""}
Names == {"fondsen.xlsx", "indices/aex.csv", "/tmp/x.csv"}

InitPath ==
    /\ env = Unset
    /\ fs = <<>>
    /\ last = None
    /\ kept = None
    /\ outcome = None
    /\ heap = <<>>
    /\ ncalls = 0
    /\ again = None

NextPath ==
    \/ \E v \in EnvValues : SetEnv(v)
    \/ UnsetEnv
    \/ \E n \in Names : DataPathCall(n)
    \/ \E e \in Idx : IdxDescribeCall(e)
    \/ \E e \in Idx : IdxFilenameCall(e)
    \/ \E e \in Idx : IdxUrlCall(e)
    \/ \E e \in Idx : IdxInitFileCall(e)
    \/ Keep

SpecPath == InitPath /\ [][NextPath]_vars

---------------------------------------------------------------------------
(* Specification of loading one workbook: every source table of at most    *)
(* MaxRows rows, the index text in any order and with repetitions.         *)

IndexText == {"2020-01-01", "2020-01-02", "2020-01-03"}
Header == <<"datum", "A", "B">>

\* the rows that may stand at position i: any index text, and in each column
\* either a missing value or a number.  The numbers differ from row to row
\* and from column to column, so that a filled cell identifies the row its
\* value was taken from (interpolation never inspects a present value).
RowsAt(i) ==
    {<<Text(d), a, b>> : d \in IndexText, a \in {NaN, Num(9 + i)}, b \in {NaN, Num(19 + i)}}
RECURSIVE TablesOfLen(_)
TablesOfLen(n) ==
    IF n = 0 THEN {<<>>}
    ELSE {Append(r, row) : r \in TablesOfLen(n - 1), row \in RowsAt(n)}
SourceTables ==
    {[header |-> Header, rows |-> r] : r \in UNION {TablesOfLen(n) : n \in 0..MaxRows}}

CsvFile(t) == [kind |-> "csv", table |-> t]
Garbage == [kind |-> "garbage"]
Workbook(t) == [kind |-> "xlsx", sheets |-> <<[name |-> "koersen", table |-> t]>>]

InitData ==
    /\ env = Unset
    /\ \E t \in SourceTables : fs = ("data/fondsen.xlsx" :> Workbook(t))
    /\ last = None
    /\ kept = None
    /\ outcome = None
    /\ heap = <<>>
    /\ ncalls = 0
    /\ again = None

NextData ==
    \/ DfRatesCall("fondsen.xlsx", 0, SheetName("koersen"))
    \/ Reinterpolate

SpecData == InitData /\ [][NextData]_vars

---------------------------------------------------------------------------
(* Specification of the dispatch on the file name and of failing reads:    *)
(* one kind of content (or no file at all) at every path.                  *)

Filenames == {"a.csv", "a.CSV", "a.Csv", "a.xlsx", "a", ".csv", "x.csv/a", "fondsen.xlsx"}
IndexCols == {0, 5}
Sheets == {SheetName("koersen"), SheetName("absent"), SheetPos(0)}
Bases == {"data", "db"}

\* the table of the scenario: 10, missing, 12 on three consecutive days
T1 == [header |-> Header,
       rows |-> << <<Text("2020-01-01"), Num(10), Num(20)>>,
                   <<Text("2020-01-02"), NaN, NaN>>,
                   <<Text("2020-01-03"), Num(12), NaN>> >>]
\* a table with unevenly spaced days
T2 == [header |-> Header,
       rows |-> << <<Text("2020-01-01"), Num(1), NaN>>,
                   <<Text("2020-01-04"), NaN, NaN>>,
                   <<Text("2020-01-05"), Num(4), Num(6)>> >>]
\* a table whose index is no date
TBogus == [header |-> Header,
           rows |-> << <<Text("bogus"), Num(1), NaN>> >>]

DispatchContents ==
    {Garbage, CsvFile(T1), CsvFile(TBogus), Workbook(T1),
     [kind |-> "xlsx", sheets |-> <<[name |-> "other", table |-> T2]>>]}

InitDispatch ==
    /\ env \in {Unset, SetTo("db")}
    /\ \/ fs = <<>>
       \/ \E c \in DispatchContents :
             fs = [q \in {join(b, f) : b \in Bases, f \in Filenames} |-> c]
    /\ last = None
    /\ kept = None
    /\ outcome = None
    /\ heap = <<>>
    /\ ncalls = 0
    /\ again = None

NextDispatch ==
    \E f \in Filenames, ic \in IndexCols, sh \in Sheets : DfRatesCall(f, ic, sh)

SpecDispatch == InitDispatch /\ [][NextDispatch]_vars

---------------------------------------------------------------------------
(* Specification of repeated loads while files and the environment change. *)

LoadFilenames == {"fondsen.xlsx", "koersen.csv"}
LoadPaths == {join(b, f) : b \in Bases, f \in LoadFilenames}
LoadContents == {CsvFile(T1), Workbook(T1), Workbook(T2)}

InitLoad ==
    /\ env = Unset
    /\ fs = <<>>
    /\ last = None
    /\ kept = None
    /\ outcome = None
    /\ heap = <<>>
    /\ ncalls = 0
    /\ again = None

NextLoad ==
    \/ SetEnv("db")
    \/ UnsetEnv
    \/ \E q \in LoadPaths, c \in LoadContents : WriteFile(q, c)
    \/ \E q \in LoadPaths : RemoveFile(q)
    \/ \E f \in LoadFilenames : DfRatesCall(f, 0, SheetName("koersen"))

SpecLoad == InitLoad /\ [][NextLoad]_vars

---------------------------------------------------------------------------
(* Properties of path resolution and of the Idx enumeration (SpecPath).    *)

BaseOf(e) == IF e.set THEN e.value ELSE "data"

\* C2: every call _data_path(name) returns the join of the value the
\* environment variable holds at the moment of the call (of "data" when it
\* is unset at that moment) and name, whatever was set, changed or unset
\* before the call.
C2_DataPathReadsEnvAtCall ==
    (last # None /\ last.op = "_data_path") =>
        /\ last.result = join(BaseOf(last.env), last.arg)
        /\ (~last.env.set /\ last.arg = "fondsen.xlsx") => last.result = "data/fondsen.xlsx"
        /\ (last.env = SetTo("db") /\ last.arg = "fondsen.xlsx") => last.result = "db/fondsen.xlsx"

\* C2 witness: the same name resolved twice, first with the variable set and
\* then with it unset, gives the join with "data" the second time.
C2_Witness ==
    /\ kept # None /\ last # None
    /\ kept.op = "_data_path" /\ last.op = "_data_path"
    /\ kept.arg = "fondsen.xlsx" /\ last.arg = "fondsen.xlsx"
    /\ kept.env = SetTo("db") /\ kept.result = "db/fondsen.xlsx"
    /\ last.env = Unset /\ last.result = "data/fondsen.xlsx"

LowerCased(name) ==
    CASE name = "DOW" -> "dow"
      [] name = "SPX" -> "spx"
      [] name = "NASDAQ100" -> "nasdaq100"
      [] name = "AEX" -> "aex"
      [] name = "DAX" -> "dax"
      [] name = "FTSE" -> "ftse"
      [] name = "SHANGHAI" -> "shanghai"

\* C6: for each of the seven entries and every state of the environment
\* variable, filename() is _data_path("indices/" + lowercase name + ".csv");
\* with the variable unset, AEX gives "data/indices/aex.csv".
C6_IdxFilename ==
    (last # None /\ last.op = "filename") =>
        /\ last.arg \in Idx
        /\ last.result = join(BaseOf(last.env), "indices/" \o LowerCased(last.arg) \o ".csv")
        /\ (last.arg = "AEX" /\ ~last.env.set) => last.result = "data/indices/aex.csv"

\* C6 witness: AEX's filename() with the variable unset.
C6_Witness ==
    /\ last # None
    /\ last.op = "filename" /\ last.arg = "AEX" /\ last.env = Unset
    /\ last.result = "data/indices/aex.csv"

DerivedOps == {"filename", "ic_historical_data_url", "init_file"}

\* C7 as stated: any two calls of the same derived operation on the same
\* entry return the same string, whatever happened between them.
C7_SameStringAlways ==
    (/\ kept # None /\ last # None
     /\ kept.op \in DerivedOps /\ kept.op = last.op /\ kept.arg = last.arg)
        => kept.result = last.result

\* C7 amended: ic_historical_data_url() and init_file() return the same
\* string on any two calls on the same entry; filename() returns the same
\* string on any two calls on the same entry made with the environment
\* variable in the same state.
C7_SameStringGivenEnv ==
    (/\ kept # None /\ last # None
     /\ kept.op \in DerivedOps /\ kept.op = last.op /\ kept.arg = last.arg
     /\ (kept.op = "filename" => kept.env = last.env))
        => kept.result = last.result

\* C7 witness: two init_file() calls on one entry, the variable unset at the
\* first and set at the second, return the same string.
C7_Witness ==
    /\ kept # None /\ last # None
    /\ kept.op = "init_file" /\ last.op = "init_file"
    /\ kept.arg = "DAX" /\ last.arg = "DAX"
    /\ kept.env = Unset /\ last.env = SetTo("db")
    /\ last.result = "html/dax.html"

---------------------------------------------------------------------------
(* Properties of the dispatch and of failing reads (SpecDispatch).  The    *)
(* files and the environment do not change in this specification.          *)

\* C1: the reader is chosen by the file name's extension compared without
\* regard to case: ".csv" goes to read_csv with the resolved path and
\* index_col only, anything else to read_excel with the resolved path,
\* the given sheet_name and index_col.
C1_Dispatch ==
    outcome # None =>
        /\ outcome.call.path = join(BaseOf(env), outcome.filename)
        /\ outcome.call.index_col = outcome.index_col
        /\ IF lower(splitext(outcome.filename)[2]) = ".csv"
           THEN outcome.call.reader = "read_csv" /\ outcome.call.sheet_name = NotPassed
           ELSE outcome.call.reader = "read_excel"
                /\ outcome.call.sheet_name = outcome.sheet_name
        /\ outcome.filename \in {"a.csv", "a.CSV", "a.Csv"} => outcome.call.reader = "read_csv"
        /\ outcome.filename \in {"a.xlsx", "a", "fondsen.xlsx"}
              => outcome.call.reader = "read_excel"

\* C1 witness: "a.CSV" read as csv although a sheet that no workbook has is
\* given, and the load succeeds.
C1_Witness ==
    /\ outcome # None
    /\ outcome.filename = "a.CSV" /\ outcome.sheet_name = SheetName("absent")
    /\ outcome.call.reader = "read_csv" /\ outcome.status = "ok"

\* C8: when the resolved path does not exist, the file cannot be parsed, or
\* index_col or sheet_name names a column or sheet that does not exist, the
\* load ends with exactly the exception the read step raised, no later step
\* runs, and no DataFrame is returned.
C8_ReadErrorPropagates ==
    outcome # None =>
        LET f == Lookup(fs, join(BaseOf(env), outcome.filename))
            failing == \/ f = NoFile
                       \/ f = Garbage
                       \/ outcome.index_col = 5
                       \/ /\ outcome.call.reader = "read_excel"
                          /\ outcome.sheet_name = SheetName("absent")
        IN  /\ failing => outcome.read # "DataFrame"
            /\ f = NoFile => outcome.read = "FileNotFoundError"
            /\ outcome.read # "DataFrame" =>
                  /\ outcome.status = "error"
                  /\ outcome.error = outcome.read
                  /\ outcome.steps = <<"_read_data">>
                  /\ outcome.ret = 0
                  /\ Len(heap) < ncalls

\* C8 witness: a workbook is read for a sheet it does not have.
C8_Witness ==
    /\ outcome # None
    /\ Lookup(fs, outcome.call.path) = Workbook(T1)
    /\ outcome.call.reader = "read_excel" /\ outcome.index_col = 0
    /\ outcome.sheet_name = SheetName("absent")
    /\ outcome.status = "error" /\ outcome.error = "ValueError"

---------------------------------------------------------------------------
(* Properties of repeated loads (SpecLoad).                                *)

\* the DataFrames that loading T1 and T2 must give
R1 == [index |-> <<Ts(18262), Ts(18263), Ts(18264)>>,
       columns |-> <<"A", "B">>,
       data |-> << <<Num(10), Num(20)>>, <<Num(10), NaN>>, <<Num(12), NaN>> >>]
R2 == [index |-> <<Ts(18262), Ts(18265), Ts(18266)>>,
       columns |-> <<"A", "B">>,
       data |-> << <<Num(1), NaN>>, <<Num(4), NaN>>, <<Num(4), Num(6)>> >>]

\* C9: every load call reads the file at the path resolved from the
\* environment at that moment and returns a new DataFrame determined by
\* that file's present content and the arguments; the DataFrames returned
\* before are neither returned again nor changed, by a load or by anything
\* else.
C9_NoStateBetweenCalls ==
    [][ /\ \A i \in 1..Len(heap) : Len(heap') >= i /\ heap'[i] = heap[i]
        /\ ncalls' = ncalls => heap' = heap
        /\ ncalls' = ncalls + 1 =>
              LET o == outcome'
                  f == Lookup(fs, join(BaseOf(env), o.filename))
                  readable == IF o.filename = "koersen.csv"
                              THEN f = CsvFile(T1)
                              ELSE f \in {Workbook(T1), Workbook(T2)}
              IN  /\ o.call.path = join(BaseOf(env), o.filename)
                  /\ (o.status = "ok") = readable
                  /\ o.status = "ok" =>
                        /\ o.ret = Len(heap) + 1
                        /\ Len(heap') = Len(heap) + 1
                        /\ heap'[o.ret] = IF f = Workbook(T2) THEN R2 ELSE R1
                  /\ o.status # "ok" => o.ret = 0 /\ heap' = heap
      ]_vars

\* C9 witness: two loads have returned two different DataFrames, the second
\* read under the base directory "db" while data/fondsen.xlsx still holds T1,
\* and the first DataFrame is as it was returned.
C9_Witness ==
    /\ outcome # None
    /\ outcome.filename = "fondsen.xlsx" /\ outcome.env = SetTo("db")
    /\ outcome.status = "ok" /\ outcome.ret = 2
    /\ Len(heap) = 2 /\ heap[1] = R1 /\ heap[2] = R2
    /\ Lookup(fs, "data/fondsen.xlsx") = Workbook(T1)

---------------------------------------------------------------------------
(* Properties of the loaded DataFrame (SpecData).  The workbook does not   *)
(* change in this specification, so the source is the table in the file.   *)

SrcRows == fs["data/fondsen.xlsx"].sheets[1].table.rows
Loaded == outcome # None /\ outcome.status = "ok"
Df == heap[outcome.ret]
DataColumns == 1..2

MissingAt(i, j) == SrcRows[i][j + 1] = NaN
PresentBefore(i, j) == \E k \in 1..(i - 1) : ~MissingAt(k, j)
PresentAfter(i, j) == \E k \in (i + 1)..Len(SrcRows) : ~MissingAt(k, j)
Interior(i, j) == MissingAt(i, j) /\ PresentBefore(i, j) /\ PresentAfter(i, j)
Abs(v) == IF v < 0 THEN -v ELSE v
IndexDistance(k, i) == Abs(Df.index[k].ts - Df.index[i].ts)

\* C3: a value missing in a leading or trailing run of its column (the
\* first and the last row included) is still missing in the returned
\* DataFrame.
C3_BoundaryRunsStayMissing ==
    Loaded =>
        \A j \in DataColumns, i \in 1..Len(SrcRows) :
            (MissingAt(i, j) /\ ~(PresentBefore(i, j) /\ PresentAfter(i, j)))
                => Df.data[i][j] = NaN

\* C4: every interior missing value is filled, with the value of a present
\* row of its column that is closest to it on the index.
C4_InteriorFilledWithNearest ==
    Loaded =>
        \A j \in DataColumns, i \in 1..Len(SrcRows) :
            Interior(i, j) =>
                /\ Df.data[i][j] # NaN
                /\ \E k \in 1..Len(SrcRows) :
                      /\ ~MissingAt(k, j)
                      /\ Df.data[i][j] = SrcRows[k][j + 1]
                      /\ \A l \in 1..Len(SrcRows) :
                            ~MissingAt(l, j) => IndexDistance(k, i) <= IndexDistance(l, i)

\* C5: interpolating the returned DataFrame once more changes nothing.
C5_InterpolateIdempotent ==
    (Loaded /\ again # None) => again = Df

\* C5 witness: a DataFrame with a filled interior value in one column and a
\* leading and a trailing missing value in the other has been interpolated
\* a second time.
C5_Witness ==
    /\ Loaded /\ again # None
    /\ Len(SrcRows) = 3
    /\ Interior(2, 1) /\ Df.data[2][1] # NaN
    /\ MissingAt(1, 2) /\ ~MissingAt(2, 2) /\ MissingAt(3, 2)

\* C10: the returned DataFrame has the source's rows in the source's order
\* and the source's columns, and every cell present in the source holds the
\* same value; only cells missing in the source may differ.
C10_OnlyMissingCellsChange ==
    Loaded =>
        /\ Len(Df.index) = Len(SrcRows)
        /\ Len(Df.data) = Len(SrcRows)
        /\ Df.columns = <<"A", "B">>
        /\ \A i \in 1..Len(SrcRows) :
              /\ Df.index[i] = Ts(ParseDate(SrcRows[i][1].text))
              /\ Len(Df.data[i]) = 2
              /\ \A j \in DataColumns : ~MissingAt(i, j) => Df.data[i][j] = SrcRows[i][j + 1]

\* C10 witness: a table whose index is not in date order and repeats a date
\* is loaded, a missing cell is filled, and the rows are where they were.
C10_Witness ==
    /\ Loaded
    /\ Df.index = <<Ts(18264), Ts(18262), Ts(18264)>>
    /\ ~MissingAt(1, 1) /\ ~MissingAt(2, 1) /\ MissingAt(3, 1)
    /\ Df.data[3][1] = Num(10)

====
